---- MODULE Spec2Model ----
(***************************************************************************)
(* A model of lcr.py: the level-completion-report mailer.  One run of      *)
(* lcr() loads three spreadsheets, joins the test records with the         *)
(* reference totals, stages one folder per passing record, waits for the   *)
(* operator to import the PDFs, checks the PDFs, logs in and walks the      *)
(* folders sending one e-mail per folder.                                  *)
(*                                                                         *)
(* Text is modelled as a sequence of tokens (a token stands for one or     *)
(* more characters that the program never looks inside), so that strip,    *)
(* join, split and concatenation are computed as the code computes them.   *)
(* Paths follow the Windows conventions the script hard-codes ("\\").      *)
(* The tab-indented docstring of assembleEmail (lines 363-366) is read as  *)
(* indented like the rest of its body.  The operator touches the tree only *)
(* while the script waits at a prompt that asks for it, and the            *)
(* spreadsheets stay as they are from one run of the script to the next.   *)
(***************************************************************************)
EXTENDS Integers, Sequences, FiniteSets, TLC

\* ------------------------------------------------------------------ bounds
MaxRows == 1        \* data rows of math.xls (reading.xls has one data row)
MaxPdfs == 2        \* PDFs the operator may leave in one directory
MaxPrompts == 1     \* pauses of checkPDFs the operator is given per run
MaxRuns == 2        \* invocations of the script on the same directory

\* -------------------------------------------------------------- text (str)
Range(s) == {s[i] : i \in DOMAIN s}

T(x) == <<x>>

SP == " "

RECURSIVE lstrip(_)
lstrip(s) == IF s # <<>> /\ Head(s) = SP THEN lstrip(Tail(s)) ELSE s

RECURSIVE rstrip(_)
rstrip(s) ==
    IF s # <<>> /\ s[Len(s)] = SP THEN rstrip(SubSeq(s, 1, Len(s) - 1)) ELSE s

strip(s) == rstrip(lstrip(s))

RECURSIVE join(_, _)
join(sep, parts) ==
    IF parts = <<>> THEN <<>>
    ELSE IF Len(parts) = 1 THEN parts[1]
    ELSE parts[1] \o sep \o join(sep, Tail(parts))

IsPrefix(p, s) == Len(p) <= Len(s) /\ SubSeq(s, 1, Len(p)) = p

RECURSIVE splitAcc(_, _, _, _)
splitAcc(s, sep, cur, acc) ==
    IF s = <<>> THEN Append(acc, cur)
    ELSE IF IsPrefix(sep, s)
         THEN splitAcc(SubSeq(s, Len(sep) + 1, Len(s)), sep, <<>>, Append(acc, cur))
         ELSE splitAcc(Tail(s), sep, Append(cur, Head(s)), acc)

split(s, sep) == splitAcc(s, sep, <<>>, <<>>)

Digit == <<"0", "1", "2", "3", "4", "5", "6", "7", "8", "9">>

RECURSIVE str(_)
str(n) == IF n < 10 THEN T(Digit[n + 1]) ELSE str(n \div 10) \o T(Digit[(n % 10) + 1])

endswith(name, suffix) ==
    Len(suffix) <= Len(name)
    /\ SubSeq(name, Len(name) - Len(suffix) + 1, Len(name)) = suffix

\* ------------------------------------------------------------ python dict
\* keys keeps the insertion order (the order of iteration), val the mapping.
EmptyDict == [keys |-> <<>>, val |-> [k \in {} |-> {}]]

DictHas(d, k) == k \in DOMAIN d.val

DictSet(d, k, v) ==
    [keys |-> IF DictHas(d, k) THEN d.keys ELSE Append(d.keys, k),
     val |-> [x \in (DOMAIN d.val) \cup {k} |-> IF x = k THEN v ELSE d.val[x]]]

\* A record of a spreadsheet row: column name -> text.
FieldSet(r, k, v) == [x \in (DOMAIN r) \cup {k} |-> IF x = k THEN v ELSE r[x]]

\* ------------------------------------------------------- loadSpreadsheet
\* A sheet is a sequence of rows, a row a sequence of cells; row 1 of the
\* sequence is xlrd's row 0 (the header).
nrows(sheet) == Len(sheet)
ncols(sheet) == Len(sheet[1])
cell_value(sheet, row, col) == sheet[row + 1][col + 1]

NoCol == -1

\* key_cols[i]: the first column whose header is the key name; the name
\* itself stays in place when no header matches.
KeyCol(sheet, name) ==
    LET hits == {c \in 0..(ncols(sheet) - 1) : strip(cell_value(sheet, 0, c)) = name}
    IN IF hits = {} THEN NoCol ELSE CHOOSE c \in hits : \A d \in hits : c <= d

RowKey(sheet, row, keys) ==
    [i \in 1..Len(keys) |->
        IF KeyCol(sheet, keys[i]) = NoCol THEN keys[i]
        ELSE strip(cell_value(sheet, row, KeyCol(sheet, keys[i])))]

\* value[header] = cell, a later column with the same header overwriting.
RowValue(sheet, row) ==
    LET names == {strip(cell_value(sheet, 0, c)) : c \in 0..(ncols(sheet) - 1)}
        last(nm) == CHOOSE c \in 0..(ncols(sheet) - 1) :
                        /\ strip(cell_value(sheet, 0, c)) = nm
                        /\ \A d \in 0..(ncols(sheet) - 1) :
                              strip(cell_value(sheet, 0, d)) = nm => d <= c
    IN [nm \in names |-> strip(cell_value(sheet, row, last(nm)))]

RECURSIVE loadRows(_, _, _, _, _)
loadRows(sheet, row, keys, dictionary, include_row_in_key) ==
    IF row >= nrows(sheet) THEN dictionary
    ELSE LET key == RowKey(sheet, row, keys)
             k == IF include_row_in_key
                  THEN join(T(SP), key) \o T(SP) \o str(row)
                  ELSE strip(join(T(SP), key))
         IN loadRows(sheet, row + 1, keys,
                     DictSet(dictionary, k, RowValue(sheet, row)),
                     include_row_in_key)

loadSpreadsheet(sheet, keys, dictionary, include_row_in_key) ==
    loadRows(sheet, 1, keys, dictionary, include_row_in_key)

\* ------------------------------------------------------ checkLCRSpreadsheet
REQUIRED_COLUMNS ==
    <<T("FirstName"), T("LastName"), T("Subject"), T("Type"), T("Time"),
      T("Score"), T("FatherEmail"), T("MotherEmail"), T("Passing")>>

\* TRUE when no MissingColumnError is raised (headers are compared unstripped).
checkLCRSpreadsheet(sheet) ==
    \A i \in 1..Len(REQUIRED_COLUMNS) :
        \E c \in 0..(ncols(sheet) - 1) : cell_value(sheet, 0, c) = REQUIRED_COLUMNS[i]

\* -------------------------------------------------------- assignTestTotals
NoError == "None"

total_key(student) ==
    strip(student[T("Subject")]) \o T(SP) \o strip(student[T("Type")])

\* for t in totals[total_key].keys(): student[t] = totals[total_key][t]
CopyTotals(student, total) ==
    [x \in (DOMAIN student) \cup (DOMAIN total) |->
        IF x \in DOMAIN total THEN total[x] ELSE student[x]]

\* A join that passes over a record with no reference total.
RECURSIVE assignFrom_SkipsMissing(_, _, _)
assignFrom_SkipsMissing(totals, tests, i) ==
    IF i > Len(tests.keys) THEN [tests |-> tests, err |-> NoError]
    ELSE LET s == tests.keys[i]
             student == tests.val[s]
         IN IF ~DictHas(totals, total_key(student))
            THEN assignFrom_SkipsMissing(totals, tests, i + 1)
            ELSE assignFrom_SkipsMissing(totals,
                            DictSet(tests, s,
                                    CopyTotals(student, totals.val[total_key(student)])),
                            i + 1)

\* A join that looks the level up and then copies the first reference total.
RECURSIVE assignFrom_FirstEntry(_, _, _)
assignFrom_FirstEntry(totals, tests, i) ==
    IF i > Len(tests.keys) THEN [tests |-> tests, err |-> NoError]
    ELSE LET s == tests.keys[i]
             student == tests.val[s]
         IN IF ~DictHas(totals, total_key(student))
            THEN [tests |-> tests, err |-> "KeyError"]
            ELSE assignFrom_FirstEntry(totals,
                            DictSet(tests, s,
                                    CopyTotals(student, totals.val[totals.keys[1]])),
                            i + 1)

RECURSIVE assignFrom(_, _, _)
assignFrom(totals, tests, i) ==
    IF i > Len(tests.keys) THEN [tests |-> tests, err |-> NoError]
    ELSE LET s == tests.keys[i]
             student == tests.val[s]
         IN IF ~DictHas(totals, total_key(student))
            THEN [tests |-> tests, err |-> "KeyError"]
            ELSE assignFrom(totals,
                            DictSet(tests, s,
                                    CopyTotals(student, totals.val[total_key(student)])),
                            i + 1)

assignTestTotals(totals, tests) == assignFrom(totals, tests, 1)

\* ------------------------------------------------------------- filesystem
\* fs maps the path of every existing directory to its files: file name ->
\* [text, writes]; writes counts how often the file was opened for writing.
SEP == "\\"

working_directory == <<"C:", SEP, "LCR">>

os_path_join(dir, name) == dir \o T(SEP) \o name

\* os.path.split: <<head, tail>> around the last separator.
os_path_split(path) ==
    LET seps == {i \in 1..Len(path) : path[i] = SEP}
    IN IF seps = {} THEN <<(<<>>), path>>
       ELSE LET k == CHOOSE i \in seps : \A j \in seps : j <= i
            IN <<SubSeq(path, 1, k - 1), SubSeq(path, k + 1, Len(path))>>

print_folder == os_path_join(working_directory, T("To Print"))

NoFiles == [n \in {} |-> {}]

mkdir(fs, path) == [d \in (DOMAIN fs) \cup {path} |-> IF d = path THEN NoFiles ELSE fs[d]]

PutFile(fs, dir, name, file) ==
    [fs EXCEPT ![dir] = [n \in (DOMAIN fs[dir]) \cup {name} |->
                            IF n = name THEN file ELSE fs[dir][n]]]

DropFile(fs, dir, name) ==
    [fs EXCEPT ![dir] = [n \in (DOMAIN fs[dir]) \ {name} |-> fs[dir][n]]]

\* A writer that leaves a file that exists alone.
WriteFile_KeepsExisting(fs, dir, name, text) ==
    IF name \in DOMAIN fs[dir] THEN fs
    ELSE PutFile(fs, dir, name, [text |-> text, writes |-> 1])

\* open(path, 'w'); write(text); close(): truncates and rewrites the file.
WriteFile(fs, dir, name, text) ==
    PutFile(fs, dir, name,
            [text |-> text,
             writes |-> IF name \in DOMAIN fs[dir] THEN fs[dir][name].writes + 1 ELSE 1])

pdfs(files) == {n \in DOMAIN files : endswith(n, T(".pdf"))}

\* ------------------------------------------------------- prepEmailFolders
EmailHtml == <<"email", ".html">>

INTEGER_COLUMNS == <<T("Time"), T("suggestedTime"), T("Score"), T("totalMarks")>>

\* TemplateEmail.html: literal text and $placeholders.
TemplateEmail ==
    <<[lit |-> T("Dear parent of ")], [var |-> T("FirstName")],
      [lit |-> T(": score ")], [var |-> T("Score")], [lit |-> T("/")],
      [var |-> T("totalMarks")], [lit |-> T(" in ")], [var |-> T("Time")],
      [lit |-> T(" of ")], [var |-> T("suggestedTime")], [lit |-> T(" minutes")]>>

IsVar(part) == "var" \in DOMAIN part

\* Template.substitute raises KeyError on a placeholder with no field.
CanSubstitute(template, student) ==
    \A i \in 1..Len(template) : IsVar(template[i]) => template[i].var \in DOMAIN student

RECURSIVE substitute(_, _)
substitute(template, student) ==
    IF template = <<>> THEN <<>>
    ELSE (IF IsVar(Head(template)) THEN student[Head(template).var]
          ELSE Head(template).lit) \o substitute(Tail(template), student)

folder_name(student, s) ==
    strip(student[T("FirstName")]) \o T(SP) \o strip(student[T("LastName")])
        \o <<SP, "Level", SP>> \o strip(student[T("Type")])
        \o <<SP, "-", "-", "-", SP>> \o s

\* A stager that renders the columns as xlrd delivered them.
truncateColumns_KeepsFraction(student, i) ==
    [student |-> student,
     err |-> IF \A j \in i..Len(INTEGER_COLUMNS) : INTEGER_COLUMNS[j] \in DOMAIN student
             THEN NoError ELSE "KeyError"]

\* student[k] = student[k].split(".")[0] for the columns up to the first one
\* the record lacks (KeyError).
RECURSIVE truncateColumns(_, _)
truncateColumns(student, i) ==
    IF i > Len(INTEGER_COLUMNS) THEN [student |-> student, err |-> NoError]
    ELSE LET k == INTEGER_COLUMNS[i]
         IN IF k \notin DOMAIN student THEN [student |-> student, err |-> "KeyError"]
            ELSE truncateColumns(FieldSet(student, k, split(student[k], T("."))[1]), i + 1)

\* A stager that skips no record.
SkipsRecord_Never(student) == FALSE

\* if student["Passing"] == "No": continue
SkipsRecord(student) == student[T("Passing")] = T("No")

\* An os.mkdir whose FileExistsError is not caught.
try_mkdir_Raises(fs, path) ==
    IF path \in DOMAIN fs THEN [fs |-> fs, err |-> "FileExistsError"]
    ELSE [fs |-> mkdir(fs, path), err |-> NoError]

\* try: os.mkdir(folder_path) except FileExistsError: pass
try_mkdir(fs, path) ==
    [fs |-> IF path \in DOMAIN fs THEN fs ELSE mkdir(fs, path), err |-> NoError]

RECURSIVE prepFrom(_, _, _, _, _)
prepFrom(tests, template_email, target_directory, fs, i) ==
    IF i > Len(tests.keys) THEN [tests |-> tests, fs |-> fs, err |-> NoError]
    ELSE LET s == tests.keys[i]
             student == tests.val[s]
             folder_path == os_path_join(target_directory, folder_name(student, s))
             made == try_mkdir(fs, folder_path)
             fs1 == made.fs
             tr == truncateColumns(student, 1)
             tests1 == DictSet(tests, s, tr.student)
         IN IF SkipsRecord(student)
            THEN prepFrom(tests, template_email, target_directory, fs, i + 1)
            ELSE IF made.err # NoError
            THEN [tests |-> tests, fs |-> fs1, err |-> made.err]
            ELSE IF tr.err # NoError
            THEN [tests |-> tests1, fs |-> fs1, err |-> tr.err]
            ELSE IF ~CanSubstitute(template_email, tr.student)
            \* open(email_path, 'w') has already truncated the file
            THEN [tests |-> tests1,
                  fs |-> WriteFile(fs1, folder_path, EmailHtml, <<>>),
                  err |-> "KeyError"]
            ELSE prepFrom(tests1, template_email, target_directory,
                          WriteFile(fs1, folder_path, EmailHtml,
                                    substitute(template_email, tr.student)),
                          i + 1)

prepEmailFolders(tests, template_email, target_directory, fs) ==
    prepFrom(tests, template_email, target_directory, fs, 1)

\* --------------------------------------------------------------- checkPDFs
\* A walk that lets a folder with several PDFs pass.
RECURSIVE checkWalk_AllowsSeveral(_, _, _, _)
checkWalk_AllowsSeveral(order, fs, target_directory, exceptions) ==
    IF order = <<>> THEN TRUE
    ELSE LET root == Head(order)
             num_of_pdfs == Cardinality(pdfs(fs[root]))
         IN IF root \in exceptions
            THEN checkWalk_AllowsSeveral(Tail(order), fs, target_directory, exceptions)
            ELSE IF root = target_directory
            THEN IF num_of_pdfs > 0 THEN FALSE
                 ELSE checkWalk_AllowsSeveral(Tail(order), fs, target_directory, exceptions)
            ELSE IF num_of_pdfs = 0 THEN FALSE
            ELSE checkWalk_AllowsSeveral(Tail(order), fs, target_directory, exceptions)

\* A walk that does not pass over the excepted directories.
RECURSIVE checkWalk_NoExceptions(_, _, _, _)
checkWalk_NoExceptions(order, fs, target_directory, exceptions) ==
    IF order = <<>> THEN TRUE
    ELSE LET root == Head(order)
             num_of_pdfs == Cardinality(pdfs(fs[root]))
         IN IF root = target_directory
            THEN IF num_of_pdfs > 0 THEN FALSE
                 ELSE checkWalk_NoExceptions(Tail(order), fs, target_directory, exceptions)
            ELSE IF num_of_pdfs = 0 THEN FALSE
            ELSE IF num_of_pdfs > 1 THEN FALSE
            ELSE checkWalk_NoExceptions(Tail(order), fs, target_directory, exceptions)

\* One pass of the for loop over os.walk: TRUE when the walk ends without a
\* break (pdfs_sorted stays True), FALSE when some directory made it pause.
RECURSIVE checkWalk(_, _, _, _)
checkWalk(order, fs, target_directory, exceptions) ==
    IF order = <<>> THEN TRUE
    ELSE LET root == Head(order)
             num_of_pdfs == Cardinality(pdfs(fs[root]))
         IN IF root \in exceptions
            THEN checkWalk(Tail(order), fs, target_directory, exceptions)
            ELSE IF root = target_directory
            THEN IF num_of_pdfs > 0 THEN FALSE
                 ELSE checkWalk(Tail(order), fs, target_directory, exceptions)
            ELSE IF num_of_pdfs = 0 THEN FALSE
            ELSE IF num_of_pdfs > 1 THEN FALSE
            ELSE checkWalk(Tail(order), fs, target_directory, exceptions)

\* os.walk is top-down: the root first, then its subdirectories in the
\* arbitrary order of the directory listing.
WalkOrders(fs, top) ==
    LET subs == (DOMAIN fs) \ {top}
        n == Cardinality(subs)
    IN {<<top>> \o p : p \in {q \in [1..n -> subs] : Range(q) = subs}}

\* ----------------------------------------------------------- getRecipients
\* A getRecipients without the test for identical addresses.
getRecipients_NoCollapse(test_data) ==
    LET r1 == IF test_data[T("MotherEmail")] # <<>>
              THEN <<test_data[T("MotherEmail")]>> ELSE <<>>
        recipients == IF test_data[T("FatherEmail")] # <<>>
                      THEN Append(r1, test_data[T("FatherEmail")]) ELSE r1
    IN join(<<",", SP>>, recipients)

getRecipients(test_data) ==
    LET r1 == IF test_data[T("MotherEmail")] # <<>>
              THEN <<test_data[T("MotherEmail")]>> ELSE <<>>
        recipients == IF test_data[T("FatherEmail")] # <<>>
                      THEN Append(r1, test_data[T("FatherEmail")]) ELSE r1
    IN IF Len(recipients) = 2 /\ recipients[1] = recipients[2]
       THEN recipients[1]
       ELSE join(<<",", SP>>, recipients)

\* ----------------------------------------------------------- assembleEmail
report_name(student_info) ==
    student_info[T("LastName")] \o <<",", SP>> \o student_info[T("FirstName")]
        \o <<SP, "-", SP>> \o student_info[T("Subject")] \o T(SP)
        \o student_info[T("Type")] \o <<SP, "level completion report", ".pdf">>

\* os.rename(src, dst) of a file; fails when the target exists as another file.
CanRename(fs, sdir, sname, ddir, dname) ==
    /\ sdir \in DOMAIN fs /\ sname \in DOMAIN fs[sdir]
    /\ ddir \in DOMAIN fs
    /\ (dname \in DOMAIN fs[ddir] => (ddir = sdir /\ dname = sname))

\* os.rename that leaves the source file in place.
rename_Copies(fs, sdir, sname, ddir, dname) ==
    PutFile(fs, ddir, dname, fs[sdir][sname])

rename(fs, sdir, sname, ddir, dname) ==
    IF ddir = sdir /\ dname = sname THEN fs
    ELSE PutFile(DropFile(fs, sdir, sname), ddir, dname, fs[sdir][sname])

\* The for loop over filenames: st = [fs, attachment, emailBody, renames, err];
\* renames counts the calls of os.rename that went through.
RECURSIVE assembleFiles(_, _, _, _)
assembleFiles(student_info, folder, filenames, st) ==
    IF filenames = <<>> \/ st.err # NoError THEN st
    ELSE LET f == Head(filenames)
             newName == folder \o T(SEP) \o report_name(student_info)
             dst == os_path_split(newName)
             st1 == IF ~endswith(f, T(".pdf")) THEN st
                    ELSE IF ~CanRename(st.fs, folder, f, dst[1], dst[2])
                    THEN [st EXCEPT !.err = "OSError"]
                    ELSE [st EXCEPT !.fs = rename(st.fs, folder, f, dst[1], dst[2]),
                                    !.attachment = newName,
                                    !.renames = st.renames + 1]
             st2 == IF st1.err = NoError /\ endswith(f, T(".html"))
                    THEN [st1 EXCEPT !.emailBody = st1.fs[folder][f].text]
                    ELSE st1
         IN assembleFiles(student_info, folder, Tail(filenames), st2)

FileAt(fs, path) ==
    LET p == os_path_split(path)
    IN p[1] \in DOMAIN fs /\ p[2] \in DOMAIN fs[p[1]]

assembleEmail(FROM, student_info, folder, filenames, fs) ==
    LET st == assembleFiles(student_info, folder, filenames,
                            [fs |-> fs, attachment |-> <<>>, emailBody |-> <<>>,
                             renames |-> 0, err |-> NoError])
        at == os_path_split(st.attachment)
        \* open(attachment, "rb")
        err == IF st.err # NoError THEN st.err
               ELSE IF ~FileAt(st.fs, st.attachment) THEN "FileNotFoundError"
               ELSE NoError
    IN [msg |-> [From |-> FROM,
                 To |-> getRecipients(student_info),
                 Subject |-> student_info[T("FirstName")]
                                 \o <<"'s", SP, "Level Completion Report">>,
                 body |-> st.emailBody,
                 \* att.set_payload(attachFile.read())
                 payload |-> IF FileAt(st.fs, st.attachment)
                             THEN st.fs[at[1]][at[2]].text ELSE <<>>,
                 filename |-> at[2]],
        attachment |-> st.attachment,
        renames |-> st.renames,
        fs |-> st.fs,
        err |-> err]

\* The listing of a directory as os.walk hands it over.
Listing(files) ==
    LET n == Cardinality(DOMAIN files)
    IN CHOOSE q \in [1..n -> DOMAIN files] : Range(q) = DOMAIN files

\* ------------------------------------------------------------------ inputs
TestHeader == REQUIRED_COLUMNS

Num(whole, frac) == <<whole, ".", frac>>

MathRowChoices ==
    { <<T("John"), T("Doe"), T("Math"), <<SP, "A">>, Num("20", "5"), Num("190", "0"),
        <<>>, T("m@x.com"), T("Yes")>>,
      <<T("Ann"), T("Lee"), T("Math"), T("B"), Num("15", "0"), Num("170", "9"),
        <<>>, <<>>, T("Yes")>>,
      <<T("Bob"), T("Ray"), T("Math"), T("A"), Num("30", "0"), Num("90", "0"),
        <<>>, T("m@x.com"), T("No")>> }

ReadingRowChoices ==
    { <<T("Sue"), T("Kim"), T("Reading"), T("A"), Num("10", "0"), Num("95", "5"),
        T("f@x.com"), T("m@x.com"), T("Yes")>>,
      <<T("Tom"), T("Fox"), T("Reading"), T("B"), Num("12", "0"), Num("80", "0"),
        T("f@x.com"), <<>>, T("Yes")>> }

MathSheets ==
    {<<TestHeader>> \o rows :
        rows \in UNION {[1..n -> MathRowChoices] : n \in 1..MaxRows}}

ReadingSheets == {<<TestHeader, row>> : row \in ReadingRowChoices}

\* AchievementTestData.xls: one sheet per subject; no row for "Reading B".
TotalsHeader == <<T("level"), T("totalMarks"), T("suggestedTime")>>

AchievementTestData ==
    << <<TotalsHeader,
         <<(<<"Math", SP, "A", SP>>), Num("200", "0"), Num("20", "0")>>,
         <<(<<"Math", SP, "B">>), Num("180", "0"), Num("15", "0")>> >>,
       <<TotalsHeader,
         <<(<<"Reading", SP, "A">>), Num("100", "0"), Num("10", "0")>> >> >>

LCR_USER == T("lcr@x.com")

CmsPdfName(i) == <<"cms", Digit[i + 1], ".pdf">>

\* ------------------------------------------------------------------- state
VARIABLES
    pc,            \* where lcr() stands
    runs,          \* invocations of the script so far
    workbooks,     \* math.xls and reading.xls of the working directory
    test_totals,   \* lcr(): test_totals
    tests_taken,   \* lcr(): tests_taken
    fs,            \* the directory tree under working_directory
    walk,          \* directories os.walk has still to yield in the send loop
    dest,          \* lcr(): the local dest, unbound until line 130 runs
    mailLog,       \* the calls of smtp.sendmail of this run, in order
    prompts,       \* pauses of checkPDFs in this run
    error,         \* the exception that ended the run
    probe          \* the last call of a function applied on its own

vars == <<pc, runs, workbooks, test_totals, tests_taken, fs, walk, dest,
          mailLog, prompts, error, probe>>

NoProbe == [op |-> "none"]

Unbound == [bound |-> FALSE, path |-> <<>>]

Init ==
    /\ pc = "getLCRDirectory"
    /\ runs = 1
    /\ workbooks \in [math : MathSheets, reading : ReadingSheets]
    /\ test_totals = EmptyDict
    /\ tests_taken = EmptyDict
    /\ fs = mkdir(NoFiles, working_directory)
    /\ walk = {}
    /\ dest = Unbound
    /\ mailLog = <<>>
    /\ prompts = 0
    /\ error = NoError
    /\ probe = NoProbe

\* ----------------------------------------------------------------- actions
\* getLCRDirectory / checkTarget: asks again until both spreadsheets carry
\* the required columns.
GetLCRDirectory ==
    /\ pc = "getLCRDirectory"
    /\ pc' = IF checkLCRSpreadsheet(workbooks.math)
                /\ checkLCRSpreadsheet(workbooks.reading)
             THEN "loadSpreadsheet" ELSE "getLCRDirectory"
    /\ UNCHANGED <<runs, workbooks, test_totals, tests_taken, fs, walk, dest,
                   mailLog, prompts, error>>
    /\ UNCHANGED probe

\* lcr() lines 81-86
LoadSpreadsheets ==
    /\ pc = "loadSpreadsheet"
    /\ test_totals' =
          loadSpreadsheet(AchievementTestData[2], <<T("level")>>,
              loadSpreadsheet(AchievementTestData[1], <<T("level")>>, EmptyDict, FALSE),
              FALSE)
    /\ tests_taken' =
          loadSpreadsheet(workbooks.reading, <<T("Subject")>>,
              loadSpreadsheet(workbooks.math, <<T("Subject")>>, EmptyDict, TRUE),
              TRUE)
    /\ pc' = "assignTestTotals"
    /\ UNCHANGED <<runs, workbooks, fs, walk, dest, mailLog, prompts, error>>
    /\ UNCHANGED probe

\* lcr() line 89
AssignTestTotals ==
    /\ pc = "assignTestTotals"
    /\ LET r == assignTestTotals(test_totals, tests_taken)
       IN /\ tests_taken' = r.tests
          /\ error' = r.err
          /\ pc' = IF r.err = NoError THEN "prepEmailFolders" ELSE "aborted"
    /\ UNCHANGED <<runs, workbooks, test_totals, fs, walk, dest, mailLog, prompts>>
    /\ UNCHANGED probe

\* lcr() line 93
PrepEmailFolders ==
    /\ pc = "prepEmailFolders"
    /\ LET r == prepEmailFolders(tests_taken, TemplateEmail, working_directory, fs)
       IN /\ tests_taken' = r.tests
          /\ fs' = r.fs
          /\ error' = r.err
          /\ pc' = IF r.err = NoError THEN "import" ELSE "aborted"
    /\ UNCHANGED <<runs, workbooks, test_totals, walk, dest, mailLog, prompts>>
    /\ UNCHANGED probe

\* While the script waits at an input() that asks for it, the operator puts
\* a PDF exported from CMS into the working directory or a student folder.
OperatorAddPdf ==
    /\ pc \in {"import", "checkPDFs_input"}
    /\ \E d \in (DOMAIN fs) \ {print_folder} :
          /\ Cardinality(pdfs(fs[d])) < MaxPdfs
          /\ LET free == {i \in 1..MaxPdfs : CmsPdfName(i) \notin DOMAIN fs[d]}
                 i == CHOOSE j \in free : \A k \in free : j <= k
             IN fs' = PutFile(fs, d, CmsPdfName(i), [text |-> T("report"), writes |-> 1])
    /\ UNCHANGED <<pc, runs, workbooks, test_totals, tests_taken, walk, dest,
                   mailLog, prompts, error>>
    /\ UNCHANGED probe

\* ... or removes one: the renamed report, or the export added last (the
\* exports of one directory differ in nothing but their names).
OperatorRemovePdf ==
    /\ pc \in {"import", "checkPDFs_input"}
    /\ \E d \in (DOMAIN fs) \ {print_folder} : \E n \in pdfs(fs[d]) :
          /\ \A i, j \in 1..MaxPdfs :
                (n = CmsPdfName(i) /\ CmsPdfName(j) \in DOMAIN fs[d]) => j <= i
          /\ fs' = DropFile(fs, d, n)
    /\ UNCHANGED <<pc, runs, workbooks, test_totals, tests_taken, walk, dest,
                   mailLog, prompts, error>>
    /\ UNCHANGED probe

\* lcr() lines 97-105: Enter is pressed, "To Print" is created if missing.
ImportDone ==
    /\ pc = "import"
    /\ fs' = IF print_folder \in DOMAIN fs THEN fs ELSE mkdir(fs, print_folder)
    /\ pc' = "checkPDFs"
    /\ UNCHANGED <<runs, workbooks, test_totals, tests_taken, walk, dest,
                   mailLog, prompts, error>>
    /\ UNCHANGED probe

\* checkPDFs: one iteration of the while loop, up to its input() or its end.
CheckPDFs ==
    /\ pc = "checkPDFs"
    /\ \E order \in WalkOrders(fs, working_directory) :
          IF checkWalk(order, fs, working_directory, {print_folder})
          THEN pc' = "emailLogin" /\ prompts' = prompts
          ELSE prompts < MaxPrompts /\ pc' = "checkPDFs_input" /\ prompts' = prompts + 1
    /\ UNCHANGED <<runs, workbooks, test_totals, tests_taken, fs, walk, dest,
                   mailLog, error>>
    /\ UNCHANGED probe

\* checkPDFs: the operator presses Enter, the while loop starts over.
PressEnter ==
    /\ pc = "checkPDFs_input"
    /\ pc' = "checkPDFs"
    /\ UNCHANGED <<runs, workbooks, test_totals, tests_taken, fs, walk, dest,
                   mailLog, prompts, error>>
    /\ UNCHANGED probe

\* lcr() lines 111-114: log in, start the walk.
EmailLogin ==
    /\ pc = "emailLogin"
    /\ pc' = "sendLoop"
    /\ walk' = DOMAIN fs
    /\ UNCHANGED <<runs, workbooks, test_totals, tests_taken, fs, dest,
                   mailLog, prompts, error>>
    /\ UNCHANGED probe

\* The directory os.walk yields next: the top one first.
NextFolders(w) == IF working_directory \in w THEN {working_directory} ELSE w

\* A walk that yields a student folder again.
Remaining_Revisits(w, folder) == IF folder = working_directory THEN w \ {folder} ELSE w

\* os.walk yields every directory once: what is left after folder.
Remaining(w, folder) == w \ {folder}

\* lcr() lines 115-116
SkipFolder ==
    /\ pc = "sendLoop"
    /\ \E folder \in NextFolders(walk) :
          /\ folder = working_directory \/ folder = print_folder
          /\ walk' = Remaining(walk, folder)
    /\ UNCHANGED <<pc, runs, workbooks, test_totals, tests_taken, fs, dest,
                   mailLog, prompts, error>>
    /\ UNCHANGED probe

\* What smtp.sendmail can do with a submission: an empty recipient string
\* is refused (SMTPRecipientsRefused).
TransportOutcomes(to) ==
    IF to = <<>> THEN {"SMTPException"} ELSE {"Success", "SMTPException"}

Abort(e) ==
    /\ pc' = "aborted"
    /\ error' = e

\* folder.split(' --- ')[1]: <<key>>, or <<>> when the index is out of range.
FolderKey(folder) == SubSeq(split(folder, <<SP, "-", "-", "-", SP>>), 2, 2)

\* lcr() lines 119-135: one student folder.
SendFolder ==
    /\ pc = "sendLoop"
    /\ \E folder \in NextFolders(walk) :
          /\ folder # working_directory /\ folder # print_folder
          /\ walk' = Remaining(walk, folder)
          /\ LET parts == <<folder>> \o FolderKey(folder)
             IN IF Len(parts) < 2
                THEN Abort("IndexError") /\ UNCHANGED <<fs, dest, mailLog>>
                ELSE IF ~DictHas(tests_taken, parts[2])
                THEN Abort("KeyError") /\ UNCHANGED <<fs, dest, mailLog>>
                ELSE
                LET student_info == tests_taken.val[parts[2]]
                    a == assembleEmail(LCR_USER, student_info, folder,
                                       Listing(fs[folder]), fs)
                IN IF a.err # NoError
                   THEN Abort(a.err) /\ fs' = a.fs /\ UNCHANGED <<dest, mailLog>>
                   ELSE \E result \in TransportOutcomes(a.msg.To) :
                      /\ mailLog' = Append(mailLog,
                                           [folder |-> folder, key |-> parts[2],
                                            msg |-> a.msg, result |-> result,
                                            attachment |-> a.attachment,
                                            renames |-> a.renames])
                      /\ IF result = "Success"
                         THEN fs' = a.fs /\ UNCHANGED <<pc, dest, error>>
                         \* the handler prints dest before line 130 binds it
                         ELSE IF ~dest.bound
                         THEN Abort("UnboundLocalError") /\ fs' = a.fs
                              /\ UNCHANGED dest
                         ELSE LET d == print_folder \o os_path_split(a.attachment)[2]
                                  src == os_path_split(a.attachment)
                                  to == os_path_split(d)
                              IN /\ dest' = [bound |-> TRUE, path |-> d]
                                 /\ fs' = PutFile(a.fs, to[1], to[2],
                                                  a.fs[src[1]][src[2]])
                                 /\ UNCHANGED <<pc, error>>
    /\ UNCHANGED <<runs, workbooks, test_totals, tests_taken, prompts>>
    /\ UNCHANGED probe

\* lcr() lines 137-139
Finish ==
    /\ pc = "sendLoop"
    /\ walk = {}
    /\ pc' = "done"
    /\ UNCHANGED <<runs, workbooks, test_totals, tests_taken, fs, walk, dest,
                   mailLog, prompts, error>>
    /\ UNCHANGED probe

\* The script is started again on the same working directory.
Rerun ==
    /\ pc \in {"done", "aborted"}
    /\ runs < MaxRuns
    /\ runs' = runs + 1
    /\ pc' = "getLCRDirectory"
    /\ test_totals' = EmptyDict
    /\ tests_taken' = EmptyDict
    /\ walk' = {}
    /\ dest' = Unbound
    /\ mailLog' = <<>>
    /\ prompts' = 0
    /\ error' = NoError
    /\ UNCHANGED <<workbooks, fs>>
    /\ UNCHANGED probe

Next ==
    \/ GetLCRDirectory
    \/ LoadSpreadsheets
    \/ AssignTestTotals
    \/ PrepEmailFolders
    \/ OperatorAddPdf
    \/ OperatorRemovePdf
    \/ ImportDone
    \/ CheckPDFs
    \/ PressEnter
    \/ EmailLogin
    \/ SkipFolder
    \/ SendFolder
    \/ Finish
    \/ Rerun

Spec == Init /\ [][Next]_vars

\* ------------------------------------------- the functions on their own
\* A second specification: the spreadsheets are drawn from a wider set, the
\* script runs up to the end of the loading, and getRecipients and the
\* naming and decoding of the folders are applied to the loaded records.
MaxLoadRows == 2     \* data rows of math.xls in this specification

Mail(first, subject, father, mother) ==
    <<T(first), T("Doe"), T(subject), T("A"), Num("20", "5"), Num("190", "0"),
      father, mother, T("Yes")>>

LoadMathRowChoices ==
    { Mail("John", "Math", <<>>, <<>>),
      Mail("John", "Math", <<>>, T("m@x.com")),
      Mail("John", "Math", T("f@x.com"), <<>>),
      Mail("John", "Math", T("m@x.com"), T("m@x.com")),
      Mail("John", "Math", T("f@x.com"), T("m@x.com")) }

\* reading.xls: a row of the Reading report, or a row that carries "Math"
\* in its Subject column.
LoadReadingRowChoices ==
    { Mail("Sue", "Reading", T("f@x.com"), T("m@x.com")),
      Mail("Sue", "Math", T("f@x.com"), T("m@x.com")) }

LoadMathSheets ==
    {<<TestHeader>> \o rows :
        rows \in UNION {[1..n -> LoadMathRowChoices] : n \in 1..MaxLoadRows}}

LoadReadingSheets == {<<TestHeader, row>> : row \in LoadReadingRowChoices}

\* Directories the operator may name at the prompt of getLCRDirectory.
DirectoryChoices ==
    { working_directory,
      <<"C:", SEP, "LCR", SP, "-", "-", "-", SP, "June">> }

InitLoad ==
    /\ pc = "getLCRDirectory"
    /\ runs = 1
    /\ workbooks \in [math : LoadMathSheets, reading : LoadReadingSheets]
    /\ test_totals = EmptyDict
    /\ tests_taken = EmptyDict
    /\ fs = mkdir(NoFiles, working_directory)
    /\ walk = {}
    /\ dest = Unbound
    /\ mailLog = <<>>
    /\ prompts = 0
    /\ error = NoError
    /\ probe = NoProbe

\* assembleEmail line 367: to = getRecipients(student_info)
ProbeRecipients ==
    /\ pc = "assignTestTotals"
    /\ \E s \in DOMAIN tests_taken.val :
          probe' = [op |-> "getRecipients", key |-> s,
                    out |-> getRecipients(tests_taken.val[s])]
    /\ UNCHANGED <<pc, runs, workbooks, test_totals, tests_taken, fs, walk, dest,
                   mailLog, prompts, error>>

\* prepEmailFolders lines 270-273 and lcr() line 119: the folder of a record
\* under the directory the operator named, and the key read back from it.
ProbeFolder ==
    /\ pc = "assignTestTotals"
    /\ \E s \in DOMAIN tests_taken.val : \E target_directory \in DirectoryChoices :
          LET folder == os_path_join(target_directory,
                                     folder_name(tests_taken.val[s], s))
          IN probe' = [op |-> "folder", key |-> s, folder |-> folder,
                       decoded |-> FolderKey(folder)]
    /\ UNCHANGED <<pc, runs, workbooks, test_totals, tests_taken, fs, walk, dest,
                   mailLog, prompts, error>>

NextLoad ==
    \/ GetLCRDirectory
    \/ LoadSpreadsheets
    \/ ProbeRecipients
    \/ ProbeFolder

LoadSpec == InitLoad /\ [][NextLoad]_vars

\* ------------------------------------------------------ the script running
\* A third specification, for what the script eventually does: one pair of
\* spreadsheets, and the script takes its next step whenever it is not
\* waiting for the operator (checkPDFs walks the tree when it is called and
\* whenever Enter has been pressed).
InitFair ==
    /\ Init
    /\ nrows(workbooks.math) = 2
    /\ workbooks.math[2][1] = T("John")
    /\ workbooks.reading[2][1] = T("Sue")

FairSpec == InitFair /\ [][Next]_vars /\ WF_vars(CheckPDFs)

\* ------------------------------------------------------------- properties
UnitFolders == (DOMAIN fs) \ {working_directory, print_folder}

KeyOfFolder(d) == split(d, <<SP, "-", "-", "-", SP>>)[2]

Failures == {i \in DOMAIN mailLog : mailLog[i].result = "SMTPException"}

\* C1: a transport failure on one folder does not abort the run: the run is
\* never aborted after a failed submission, and a run that has finished has
\* submitted a message for every student folder.
C1_FailureIsolation ==
    /\ Failures # {} => pc # "aborted"
    /\ pc = "done" => \A d \in UnitFolders : \E i \in DOMAIN mailLog : mailLog[i].folder = d

\* C2: after a failed submission the report of that folder lies in the
\* "To Print" directory and no longer in the student's folder.
C2_FailedUnitIsDeferred ==
    \A i \in Failures :
        /\ print_folder \in DOMAIN fs
        /\ mailLog[i].msg.filename \in DOMAIN fs[print_folder]
        /\ mailLog[i].msg.filename \notin DOMAIN fs[mailLog[i].folder]

\* C3: a record whose mother and father addresses are both empty is never
\* submitted to the mail server.
C3_NoSubmissionForEmptyRecipients ==
    \A i \in DOMAIN mailLog :
        ~(/\ tests_taken.val[mailLog[i].key][T("MotherEmail")] = <<>>
          /\ tests_taken.val[mailLog[i].key][T("FatherEmail")] = <<>>)

\* The tree as reconciliation wants it: no PDF in the working directory and
\* exactly one in every student folder.
AllClear(tree) ==
    /\ pdfs(tree[working_directory]) = {}
    /\ \A d \in (DOMAIN tree) \ {working_directory, print_folder} :
          Cardinality(pdfs(tree[d])) = 1

\* C4: a message is submitted only in the send loop, the send loop is entered
\* only after checkPDFs has returned, and checkPDFs returns only from a walk
\* of a tree with no PDF in the working directory and exactly one in every
\* student folder; until then it keeps pausing.
C4_ReconciliationGate ==
    [][ /\ (mailLog' # mailLog /\ mailLog' # <<>>) => pc = "sendLoop"
        /\ (pc' = "sendLoop" /\ pc # "sendLoop") => pc = "emailLogin"
        /\ (pc' = "emailLogin" /\ pc # "emailLogin") => (pc = "checkPDFs" /\ AllClear(fs))
        /\ (pc = "checkPDFs" /\ ~AllClear(fs)) => pc' \in {"checkPDFs", "checkPDFs_input"}
      ]_vars

C4_Witness ==
    /\ pc = "sendLoop"
    /\ prompts > 0
    /\ mailLog # <<>>

NotPassing == {s \in DOMAIN tests_taken.val : tests_taken.val[s][T("Passing")] = T("No")}

\* C5: a record whose Passing column says "No" has no folder and no message
\* is assembled or submitted for it.
C5_NotPassingNeverStaged ==
    \A s \in NotPassing :
        /\ \A d \in UnitFolders : KeyOfFolder(d) # s
        /\ \A i \in DOMAIN mailLog : mailLog[i].key # s

C5_Witness ==
    /\ pc = "done"
    /\ NotPassing # {}
    /\ mailLog # <<>>

\* C6: within one run every unit is submitted at most once.
C6_AtMostOneSubmission ==
    \A i, j \in DOMAIN mailLog :
        (mailLog[i].key = mailLog[j].key \/ mailLog[i].folder = mailLog[j].folder) => i = j

C6_Witness ==
    /\ pc = "done"
    /\ Len(mailLog) >= 2

\* A record of the spreadsheets whose "Subject Type" is no level of the
\* reference workbook.
HasTotal(student) ==
    \E sh \in DOMAIN AchievementTestData :
        \E r \in 2..Len(AchievementTestData[sh]) :
            strip(AchievementTestData[sh][r][1])
                = strip(student[T("Subject")]) \o T(SP) \o strip(student[T("Type")])

MissingTotal == \E s \in DOMAIN tests_taken.val : ~HasTotal(tests_taken.val[s])

\* C7: when some record has no reference total, the run ends in the join
\* with a KeyError: it never gets past assignTestTotals, no student folder
\* exists and no body is written.
C7_JoinAllOrNothing ==
    MissingTotal =>
        /\ pc \in {"assignTestTotals", "aborted"}
        /\ pc = "aborted" => error = "KeyError"
        /\ UnitFolders = {}

C7_Witness ==
    /\ MissingTotal
    /\ pc = "aborted"
    /\ Cardinality(DOMAIN tests_taken.val) >= 2

SameContents(a, b) ==
    /\ DOMAIN a = DOMAIN b
    /\ \A d \in DOMAIN a :
          /\ DOMAIN a[d] = DOMAIN b[d]
          /\ \A n \in DOMAIN a[d] : a[d][n].text = b[d][n].text

\* C9: once prepEmailFolders has run, running it again on the same records,
\* template and directory raises no error and leaves the same folders with
\* the same contents.
C9_StagingIdempotent ==
    pc = "import" =>
        LET again == prepEmailFolders(tests_taken, TemplateEmail, working_directory, fs)
        IN /\ again.err = NoError
           /\ SameContents(again.fs, fs)
           /\ again.tests = tests_taken

C9_Witness ==
    /\ pc = "import"
    /\ Cardinality(UnitFolders) >= 2

\* The rows of the reference workbook as <<level, totalMarks, suggestedTime>>.
ReferenceRows ==
    UNION {{<<strip(AchievementTestData[sh][r][1]), strip(AchievementTestData[sh][r][2]),
              strip(AchievementTestData[sh][r][3])>> :
               r \in 2..Len(AchievementTestData[sh])} :
           sh \in DOMAIN AchievementTestData}

\* C10: after assignTestTotals every record carries the totalMarks and the
\* suggestedTime of the reference row whose level is the record's
\* "Subject Type", and of no row of another level.
C10_TotalsOfMatchingLevel ==
    pc = "prepEmailFolders" =>
        \A s \in DOMAIN tests_taken.val :
            LET st == tests_taken.val[s]
                k == strip(st[T("Subject")]) \o T(SP) \o strip(st[T("Type")])
                same(row) == /\ st[T("totalMarks")] = row[2]
                             /\ st[T("suggestedTime")] = row[3]
            IN /\ \E row \in ReferenceRows : row[1] = k /\ same(row)
               /\ \A row \in ReferenceRows : row[1] # k => ~same(row)

C10_Witness ==
    /\ pc = "prepEmailFolders"
    /\ \E s, t \in DOMAIN tests_taken.val :
          tests_taken.val[s][T("totalMarks")] # tests_taken.val[t][T("totalMarks")]

\* The data rows of the two spreadsheets.
DataRows ==
    {<<"math", r>> : r \in 1..(nrows(workbooks.math) - 1)}
        \cup {<<"reading", r>> : r \in 1..(nrows(workbooks.reading) - 1)}

\* C11: once both spreadsheets are loaded, tests_taken holds every data row
\* of both under a key of its own: as many keys as rows, and every row's
\* cells under some key.
C11_RowKeysUnique ==
    pc = "assignTestTotals" =>
        /\ Cardinality(DOMAIN tests_taken.val) = Cardinality(DataRows)
        /\ \A x \in DataRows :
              \E k \in DOMAIN tests_taken.val :
                 \A c \in 1..Len(TestHeader) :
                    tests_taken.val[k][TestHeader[c]] = strip(workbooks[x[1]][x[2] + 1][c])

\* What the claim expects of getRecipients.
ExpectedRecipients(mother, father) ==
    IF mother = <<>> /\ father = <<>> THEN <<>>
    ELSE IF father = <<>> THEN mother
    ELSE IF mother = <<>> THEN father
    ELSE IF mother = father THEN mother
    ELSE mother \o <<",", SP>> \o father

\* C12: getRecipients returns the empty string for two empty addresses, the
\* one address when only one is given or both are the same, and
\* "mother, father" when they differ.
C12_Recipients ==
    probe.op = "getRecipients" =>
        probe.out = ExpectedRecipients(tests_taken.val[probe.key][T("MotherEmail")],
                                       tests_taken.val[probe.key][T("FatherEmail")])

C12_Witness ==
    /\ probe.op = "getRecipients"
    /\ tests_taken.val[probe.key][T("MotherEmail")] # <<>>
    /\ tests_taken.val[probe.key][T("MotherEmail")]
          = tests_taken.val[probe.key][T("FatherEmail")]

\* C13: a walk of checkPDFs that finds a blocking condition ends in one
\* pause, without an error and without touching the tree, and Enter starts
\* a fresh walk; a walk of a tree with no PDF in the working directory and
\* exactly one in every student folder returns, and once checkPDFs stands
\* before such a tree it does return.
C13_ReconciliationRecovers ==
    /\ [][ /\ (pc = "checkPDFs" /\ pc' # pc) =>
                /\ error' = NoError
                /\ fs' = fs
                /\ IF AllClear(fs) THEN pc' = "emailLogin" /\ prompts' = prompts
                   ELSE pc' = "checkPDFs_input" /\ prompts' = prompts + 1
           /\ (pc = "checkPDFs_input" /\ pc' # pc) => pc' = "checkPDFs"
         ]_vars
    /\ ((pc = "checkPDFs" /\ AllClear(fs)) ~> (pc = "emailLogin"))

C13_Witness ==
    /\ pc = "emailLogin"
    /\ prompts > 0
    /\ AllClear(fs)

\* C14: the key the send loop reads back from the path of a folder is the
\* key of the record the folder was named after, and two records never get
\* the same folder.
C14_FolderKeyRoundTrip ==
    /\ probe.op = "folder" => probe.decoded = <<probe.key>>
    /\ \A s, t \in DOMAIN tests_taken.val : \A target_directory \in DirectoryChoices :
          s # t => os_path_join(target_directory, folder_name(tests_taken.val[s], s))
                     # os_path_join(target_directory, folder_name(tests_taken.val[t], t))

\* "<LastName>, <FirstName> - <Subject> <Type> level completion report.pdf"
CanonicalName(student) ==
    student[T("LastName")] \o <<",", SP>> \o student[T("FirstName")]
        \o <<SP, "-", SP>> \o student[T("Subject")] \o <<SP>> \o student[T("Type")]
        \o <<SP, "level completion report", ".pdf">>

\* C15: for every folder handed to the transport, os.rename ran exactly once
\* while its message was assembled, the folder holds one PDF and it bears the
\* canonical name, and the message carries that file: its path, its name and
\* its contents.
C15_RenamedOnceBeforeTransport ==
    \A i \in DOMAIN mailLog :
        LET e == mailLog[i]
            canon == CanonicalName(tests_taken.val[e.key])
        IN /\ e.renames = 1
           /\ pdfs(fs[e.folder]) = {canon}
           /\ e.attachment = e.folder \o <<SEP>> \o canon
           /\ e.msg.filename = canon
           /\ e.msg.payload = fs[e.folder][canon].text

C15_Witness ==
    /\ runs = 1
    /\ mailLog # <<>>
    /\ mailLog[1].renames = 1
    /\ mailLog[1].msg.filename \in DOMAIN fs[mailLog[1].folder]
    /\ mailLog[1].msg.payload # <<>>

\* The text of a cell up to its first "." (all of it when it has none).
WholePart(x) ==
    LET dots == {i \in 1..Len(x) : x[i] = "."}
    IN IF dots = {} THEN x
       ELSE SubSeq(x, 1, (CHOOSE i \in dots : \A j \in dots : i <= j) - 1)

AfterJoin == {"prepEmailFolders", "import", "checkPDFs", "checkPDFs_input",
              "emailLogin", "sendLoop"}

\* C16 as stated: once assignTestTotals has returned, no step of the run
\* changes a field of a record.
C16_ReadOnlyAfterJoin ==
    [][(pc \in AfterJoin) => (tests_taken' = tests_taken)]_vars

\* C16, amended: after the join a record changes only in prepEmailFolders,
\* which replaces Time, suggestedTime, Score and totalMarks of every record
\* that is not marked Passing "No" by their text before the first "." and
\* leaves every other field and every other record as it was; the
\* reconciliation, the login and the send loop change no field.
C16_OnlyStagingTruncates ==
    [][ /\ pc \in AfterJoin \ {"prepEmailFolders"} => tests_taken' = tests_taken
        /\ pc = "prepEmailFolders" =>
              /\ tests_taken'.keys = tests_taken.keys
              /\ DOMAIN tests_taken'.val = DOMAIN tests_taken.val
              /\ \A s \in DOMAIN tests_taken.val :
                    LET old == tests_taken.val[s]
                        new == tests_taken'.val[s]
                    IN /\ DOMAIN new = DOMAIN old
                       /\ \A k \in DOMAIN old :
                             new[k] = IF old[T("Passing")] # T("No")
                                         /\ k \in Range(INTEGER_COLUMNS)
                                      THEN WholePart(old[k]) ELSE old[k]
      ]_vars

C16_Witness ==
    /\ pc = "sendLoop"
    /\ mailLog # <<>>
    /\ \E s \in DOMAIN tests_taken.val :
          /\ tests_taken.val[s][T("Passing")] = T("Yes")
          /\ tests_taken.val[s][T("Time")] = <<"20">>
          /\ tests_taken.val[s][T("totalMarks")] = <<"200">>
    /\ \E r \in 2..nrows(workbooks.math) : workbooks.math[r][5] = Num("20", "5")

Joined(student) ==
    T("totalMarks") \in DOMAIN student /\ T("suggestedTime") \in DOMAIN student

\* The folders in which a step creates email.html or writes it again.
StagedBy(before, after) ==
    {d \in DOMAIN after :
        /\ EmailHtml \in DOMAIN after[d]
        /\ \/ d \notin DOMAIN before
           \/ EmailHtml \notin DOMAIN before[d]
           \/ after[d][EmailHtml] # before[d][EmailHtml]}

\* Every record that is not marked Passing "No" has its folder, and the
\* folder holds the body rendered from the record.
StagingComplete ==
    \A s \in DOMAIN tests_taken.val :
        LET student == tests_taken.val[s]
            d == working_directory \o <<SEP>> \o folder_name(student, s)
        IN student[T("Passing")] # T("No") =>
              /\ d \in DOMAIN fs
              /\ EmailHtml \in DOMAIN fs[d]
              /\ fs[d][EmailHtml].text = substitute(TemplateEmail, student)

\* C17: a step creates a folder or writes a body only in prepEmailFolders
\* and only when every record carries its totals; a message is handed to
\* the transport only in the send loop and only when every eligible record
\* is staged; and a step of the send loop handles one folder: it adds one
\* entry with its outcome to the log, keeps the earlier entries and touches
\* no other student folder.
C17_PhaseOrdering ==
    [][ /\ (StagedBy(fs, fs') # {} \/ UnitFolders' # UnitFolders) =>
              /\ pc = "prepEmailFolders"
              /\ \A s \in DOMAIN tests_taken.val : Joined(tests_taken.val[s])
              /\ mailLog = <<>> /\ mailLog' = <<>>
        /\ (mailLog' # mailLog /\ mailLog' # <<>>) =>
              /\ pc = "sendLoop"
              /\ StagingComplete
              /\ StagedBy(fs, fs') = {}
              /\ tests_taken' = tests_taken
              /\ Len(mailLog') = Len(mailLog) + 1
              /\ SubSeq(mailLog', 1, Len(mailLog)) = mailLog
              /\ mailLog'[Len(mailLog')].result \in {"Success", "SMTPException"}
              /\ \A d \in UnitFolders \ {mailLog'[Len(mailLog')].folder} :
                    fs'[d] = fs[d]
      ]_vars

C17_Witness ==
    /\ pc = "done"
    /\ Len(mailLog) = 2
    /\ mailLog[1].folder # mailLog[2].folder
    /\ StagingComplete
    /\ \A s \in DOMAIN tests_taken.val : Joined(tests_taken.val[s])

Staged == {"import", "checkPDFs", "checkPDFs_input", "emailLogin", "sendLoop", "done"}

\* The reference row of a level: <<level, totalMarks, suggestedTime>>.
TotalsOf(subject, type) ==
    CHOOSE row \in ReferenceRows : row[1] = strip(subject) \o <<SP>> \o strip(type)

\* C18: once staging is done, for every row of the two spreadsheets that is
\* not marked Passing "No", Time and Score of its record are the whole part
\* of the row's cells and totalMarks and suggestedTime the whole part of the
\* cells of its level's reference row, none of them holds a ".", and the
\* body in the unit's folder shows exactly these texts.
C18_IntegerFieldsTruncated ==
    pc \in Staged =>
        \A x \in DataRows :
            LET row == workbooks[x[1]][x[2] + 1]
                s == strip(row[3]) \o <<SP>> \o str(x[2])
                student == tests_taken.val[s]
                ref == TotalsOf(row[3], row[4])
                d == working_directory \o <<SEP>> \o folder_name(student, s)
            IN strip(row[9]) # T("No") =>
                  /\ student[T("Time")] = WholePart(strip(row[5]))
                  /\ student[T("Score")] = WholePart(strip(row[6]))
                  /\ student[T("totalMarks")] = WholePart(ref[2])
                  /\ student[T("suggestedTime")] = WholePart(ref[3])
                  /\ \A k \in Range(INTEGER_COLUMNS) :
                        student[k] # <<>> /\ "." \notin Range(student[k])
                  /\ fs[d][EmailHtml].text =
                        <<"Dear parent of ">> \o strip(row[1]) \o <<": score ">>
                          \o WholePart(strip(row[6])) \o <<"/">> \o WholePart(ref[2])
                          \o <<" in ">> \o WholePart(strip(row[5])) \o <<" of ">>
                          \o WholePart(ref[3]) \o <<" minutes">>

C18_Witness ==
    /\ pc = "import"
    /\ \E r \in 2..nrows(workbooks.math) : workbooks.math[r][6] = Num("170", "9")
    /\ \E d \in UnitFolders :
          /\ EmailHtml \in DOMAIN fs[d]
          /\ fs[d][EmailHtml].text =
                <<"Dear parent of ", "Ann", ": score ", "170", "/", "180", " in ",
                  "15", " of ", "15", " minutes">>

====
